---- MODULE Spec2Model ----
(***************************************************************************)
(* Model of the fraud-detection data_processing pipeline                   *)
(* (src/fraud_detection/pipelines/data_processing/nodes.py, pipeline.py).  *)
(*                                                                         *)
(* A pandas DataFrame is a record                                          *)
(*    [present, cols, n, col]                                              *)
(* cols is the column index (a sequence of names, in order), n the number  *)
(* of rows and col[name] = [dtype, vals] one column: its dtype ("int64",   *)
(* "float64", "bool", "object") and its n cells.  A cell is a record       *)
(*    [f, a, b, s]                                                         *)
(*   f = "nan"                      a missing value (NaN / None)           *)
(*   f = "str"                      the Python string s                    *)
(*   f = "id",   a = b              the rational number a                  *)
(*   f = "sqrt"                     (sqrt(a) + sqrt(b)) / 2                *)
(*   f = "log1p"                    (log1p(a) + log1p(b)) / 2              *)
(* A rational is a pair <<numerator, denominator>> in lowest terms with a  *)
(* positive denominator.  sqrt and log1p are kept symbolic: both are       *)
(* strictly increasing, so order and equality of their values are those of *)
(* their arguments, and the only arithmetic the pipeline applies to them   *)
(* is the median's average of two values, which the pair (a, b) holds.     *)
(***************************************************************************)
EXTENDS Integers, Sequences, FiniteSets, TLC

(***************************************************************************)
(* Rational numbers                                                        *)
(***************************************************************************)
Abs(x) == IF x < 0 THEN -x ELSE x

RECURSIVE Gcd(_, _)
Gcd(x, y) == IF y = 0 THEN x ELSE Gcd(y, x % y)

Rat(num, den) ==
    LET g == Gcd(Abs(num), Abs(den))
        sgn == IF den < 0 THEN -1 ELSE 1
    IN  <<sgn * (num \div g), sgn * (den \div g)>>

Zero == <<0, 1>>
One == <<1, 1>>
RatOfInt(i) == <<i, 1>>
RatAdd(p, q) == Rat(p[1] * q[2] + q[1] * p[2], p[2] * q[2])
RatSub(p, q) == Rat(p[1] * q[2] - q[1] * p[2], p[2] * q[2])
RatMul(p, q) == Rat(p[1] * q[1], p[2] * q[2])
RatDivInt(p, k) == Rat(p[1], p[2] * k)
RatLess(p, q) == p[1] * q[2] < q[1] * p[2]
RatLeq(p, q) == p[1] * q[2] <= q[1] * p[2]
\* Python's x // k and x % k for a positive integer k (floor division).
RatFloorDiv(p, k) == RatOfInt(p[1] \div (p[2] * k))
RatMod(p, k) == RatSub(p, RatOfInt(k * (p[1] \div (p[2] * k))))

(***************************************************************************)
(* Cells                                                                   *)
(***************************************************************************)
NaN == [f |-> "nan", a |-> Zero, b |-> Zero, s |-> ""]
Str(s) == [f |-> "str", a |-> Zero, b |-> Zero, s |-> s]
Num(q) == [f |-> "id", a |-> q, b |-> q, s |-> ""]
IntCell(i) == Num(RatOfInt(i))
Sqrt(q) == [f |-> "sqrt", a |-> q, b |-> q, s |-> ""]
Log1p(q) == [f |-> "log1p", a |-> q, b |-> q, s |-> ""]

\* pandas isnull(): NaN and None are one missing value.
isnull(c) == c.f = "nan"
\* isinstance(x, str)
isstr(c) == c.f = "str"

\* x < y and x <= y for two non-missing numeric cells of one column (both
\* plain, or both sqrt, or both log1p, of a single argument).
NumLess(x, y) == RatLess(x.a, y.a)
NumLeq(x, y) == RatLeq(x.a, y.a)

\* (x + y) / 2 for two numeric cells of one column with x <= y.
Halfsum(x, y) ==
    IF x = y THEN x
    ELSE IF x.f = "id" THEN Num(RatDivInt(RatAdd(x.a, y.a), 2))
    ELSE [f |-> x.f, a |-> x.a, b |-> y.a, s |-> ""]

(***************************************************************************)
(* Sequences                                                               *)
(***************************************************************************)
Range(seq) == {seq[i] : i \in DOMAIN seq}
Contains(seq, x) == \E i \in DOMAIN seq : seq[i] = x
SelectIdx(seq, Keep(_)) ==
    LET F[i \in 0..Len(seq)] ==
            IF i = 0 THEN <<>>
            ELSE IF Keep(seq[i]) THEN Append(F[i - 1], seq[i]) ELSE F[i - 1]
    IN  F[Len(seq)]
\* The first position of x in seq (0 when absent).
IndexOf(seq, x) ==
    IF Contains(seq, x) THEN CHOOSE i \in DOMAIN seq :
                                 seq[i] = x /\ \A j \in 1..(i - 1) : seq[j] # x
    ELSE 0
RECURSIVE Flatten(_)
Flatten(seqs) == IF seqs = <<>> THEN <<>> ELSE Head(seqs) \o Flatten(Tail(seqs))

(***************************************************************************)
(* DataFrames                                                              *)
(***************************************************************************)
NoData == [present |-> FALSE, cols |-> <<>>, n |-> 0, col |-> <<>>]

\* A column; its cells are computed once, when the column is built.
Column(dtype, vals) == [dtype |-> dtype, vals |-> vals \o <<>>]
\* The columns of a frame by name, likewise computed once.
Columns(col) == col @@ <<>>
HasColumn(df, name) == Contains(df.cols, name)
\* df[name], for a column the frame has.
Vals(df, name) == df.col[name].vals
Dtype(df, name) == df.col[name].dtype
\* df[name] = column: a new column goes last, an existing one keeps its place.
SetColumn(df, name, column) ==
    [df EXCEPT !.cols = IF HasColumn(df, name) THEN @ ELSE Append(@, name),
               !.col = (name :> column) @@ @]
\* df.drop(columns = names), names all present.
DropColumns(df, names) ==
    LET kept == SelectIdx(df.cols, LAMBDA c : ~Contains(names, c))
    IN  [df EXCEPT !.cols = kept,
                   !.col = Columns([c \in Range(kept) |-> df.col[c]])]
\* The dtype pandas gives an integer column once it holds a missing value.
Upcast(dtype) == IF dtype = "int64" THEN "float64" ELSE dtype
\* The rows idx[1], idx[2], ... of a column; position 0 is a row without a
\* match, whose cell is missing.
Take(column, idx) ==
    Column(IF Contains(idx, 0) THEN Upcast(column.dtype) ELSE column.dtype,
           [k \in 1..Len(idx) |-> IF idx[k] = 0 THEN NaN ELSE column.vals[idx[k]]])

(***************************************************************************)
(* pd.merge(left, right, on = key, how = "left")                           *)
(***************************************************************************)
\* The right rows whose key equals k, in the right frame's order.
Matches(right, key, k) ==
    SelectIdx([j \in 1..right.n |-> j], LAMBDA j : Vals(right, key)[j] = k)
\* One <<left row, right row>> pair per output row, left order kept; a left
\* row without a match pairs with 0, a left row with m matches gives m rows.
JoinPairs(left, right, key) ==
    Flatten([i \in 1..left.n |->
        LET m == Matches(right, key, Vals(left, key)[i])
        IN  IF m = <<>> THEN << <<i, 0>> >>
            ELSE [k \in 1..Len(m) |-> <<i, m[k]>>]])
\* A non-key column the two frames share is suffixed _x (left) and _y (right).
MergedName(name, key, others, suffix) ==
    IF name # key /\ Contains(others, name) THEN name \o suffix ELSE name
left_merge(left, right, key) ==
    LET pairs == JoinPairs(left, right, key)
        li == [k \in 1..Len(pairs) |-> pairs[k][1]]
        ri == [k \in 1..Len(pairs) |-> pairs[k][2]]
        rcols == SelectIdx(right.cols, LAMBDA c : c # key)
        lnames == [k \in 1..Len(left.cols) |->
                      MergedName(left.cols[k], key, right.cols, "_x")]
        rnames == [k \in 1..Len(rcols) |->
                      MergedName(rcols[k], key, left.cols, "_y")]
    IN  [present |-> TRUE,
         cols |-> lnames \o rnames,
         n |-> Len(pairs),
         col |-> Columns([c \in Range(lnames) \cup Range(rnames) |->
                    IF c \in Range(lnames)
                    THEN Take(left.col[left.cols[IndexOf(lnames, c)]], li)
                    ELSE Take(right.col[rcols[IndexOf(rnames, c)]], ri)])]

\* nodes.py merge_datasets: a KeyError unless both frames have TransactionID.
merge_datasets_ok(transactions, identity) ==
    HasColumn(transactions, "TransactionID") /\ HasColumn(identity, "TransactionID")
merge_datasets(transactions, identity) ==
    left_merge(transactions, identity, "TransactionID")

(***************************************************************************)
(* Python strings                                                          *)
(***************************************************************************)
\* s.split(".")[0]: the text before the first dot, all of s without one.
RECURSIVE BeforeDot(_)
BeforeDot(s) ==
    IF s = "" \/ Head(s) = "." THEN "" ELSE Head(s) \o BeforeDot(Tail(s))

\* The characters of the data, in code point order.
Alphabet == "-.0123456789_abcdefghijklmnopqrstuvwxyz"
CharRank(ch) == CHOOSE i \in 1..Len(Alphabet) : SubSeq(Alphabet, i, i) = ch
\* s < t for Python strings.
RECURSIVE StrLess(_, _)
StrLess(s, t) ==
    IF t = "" THEN FALSE
    ELSE IF s = "" THEN TRUE
    ELSE IF Head(s) = Head(t) THEN StrLess(Tail(s), Tail(t))
    ELSE CharRank(Head(s)) < CharRank(Head(t))

\* The digits of rem/den after the decimal point (a terminating expansion).
RECURSIVE FracDigits(_, _, _)
FracDigits(rem, den, left) ==
    IF rem = 0 \/ left = 0 THEN ""
    ELSE ToString((rem * 10) \div den) \o FracDigits((rem * 10) % den, den, left - 1)
\* str(x) of a float: 150.0 -> "150.0", 12.5 -> "12.5".
FloatStr(q) ==
    LET whole == Abs(q[1]) \div q[2]
        rem == Abs(q[1]) % q[2]
    IN  (IF q[1] < 0 THEN "-" ELSE "") \o ToString(whole) \o "."
        \o (IF rem = 0 THEN "0" ELSE FracDigits(rem, q[2], 17))
\* Series.astype(str), cell by cell: a missing value becomes "nan".
astype_str(dtype, c) ==
    IF isnull(c) THEN "nan"
    ELSE IF isstr(c) THEN c.s
    ELSE IF dtype = "float64" THEN FloatStr(c.a)
    ELSE ToString(c.a[1])

\* x < y for two non-missing cells of one column.
CellLess(x, y) == IF isstr(x) THEN StrLess(x.s, y.s) ELSE NumLess(x, y)
\* The elements of a finite set of such cells in increasing order.
RECURSIVE SortCells(_)
SortCells(S) ==
    IF S = {} THEN <<>>
    ELSE LET m == CHOOSE x \in S : \A y \in S \ {x} : CellLess(x, y)
         IN  <<m>> \o SortCells(S \ {m})

(***************************************************************************)
(* engineer_features                                                       *)
(***************************************************************************)
\* Series.map / elementwise arithmetic.
MapColumn(column, dtype, F(_)) ==
    Column(dtype, [k \in DOMAIN column.vals |-> F(column.vals[k])])
\* (x // k) % m
FloorDivMod(c, k, m) ==
    IF isnull(c) THEN NaN ELSE Num(RatMod(RatFloorDiv(c.a, k), m))
\* (boolean).astype(int)
AsInt(bool) == IF bool THEN IntCell(1) ELSE IntCell(0)
\* As GeInt, had the comparison been written x > k.
GtInt(c, k) == ~isnull(c) /\ RatLess(RatOfInt(k), c.a)
\* x >= k and x < k against an integer: False for a missing x.
GeInt(c, k) == ~isnull(c) /\ RatLeq(RatOfInt(k), c.a)
LtInt(c, k) == ~isnull(c) /\ RatLess(c.a, RatOfInt(k))
\* As EqCells, had two missing values compared equal.
EqCellsByValue(x, y) == x = y
\* Series == Series, elementwise: a missing value equals nothing, not even
\* another missing value.
EqCells(x, y) == ~isnull(x) /\ ~isnull(y) /\ x = y

is_night(hour, night_start, night_end) ==
    AsInt(GeInt(hour, night_start) \/ LtInt(hour, night_end))
email_match(p, r) == AsInt(EqCells(p, r))
email_provider(x) == IF isstr(x) THEN Str(BeforeDot(x.s)) ELSE Str("unknown")

\* df[a].astype(str) + "_" + df[b].astype(str) + ...
card_id(df, k) ==
    LET part(name) == astype_str(Dtype(df, name), Vals(df, name)[k])
    IN  Str(part("card1") \o "_" \o part("card2") \o "_" \o part("card3") \o "_"
            \o part("card4") \o "_" \o part("card5") \o "_" \o part("card6"))

\* The column the group aggregates are taken of.
AggColumn == "TransactionID"
\* SeriesGroupBy.count / mean / std over the non-missing cells xs of a group.
RECURSIVE SumCells(_)
SumCells(xs) == IF xs = <<>> THEN Zero ELSE RatAdd(Head(xs).a, SumCells(Tail(xs)))
agg_count(xs) == IntCell(Len(xs))
agg_mean(xs) == IF xs = <<>> THEN NaN ELSE Num(RatDivInt(SumCells(xs), Len(xs)))
\* The sample standard deviation (ddof = 1): missing below two values.
agg_std(xs) ==
    IF Len(xs) < 2 THEN NaN
    ELSE LET mean == RatDivInt(SumCells(xs), Len(xs))
             sq == [k \in DOMAIN xs |->
                      Num(RatMul(RatSub(xs[k].a, mean), RatSub(xs[k].a, mean)))]
         IN  Sqrt(RatDivInt(SumCells(sq), Len(xs) - 1))

\* df.groupby(by)[of].agg(count, mean, std).reset_index(): one row per
\* non-missing key, keys sorted.
card_freq(df, by, of) ==
    LET keys == SortCells({c \in Range(Vals(df, by)) : ~isnull(c)})
        group(key) ==
            LET rows == SelectIdx([k \in 1..df.n |-> k],
                                  LAMBDA k : Vals(df, by)[k] = key)
                cells == [k \in 1..Len(rows) |-> Vals(df, of)[rows[k]]]
            IN  SelectIdx(cells, LAMBDA c : ~isnull(c))
    IN  [present |-> TRUE,
         cols |-> <<by, "card_txn_count", "card_amt_mean", "card_amt_std">>,
         n |-> Len(keys),
         col |-> (by :> Column(Dtype(df, by), keys))
              @@ [c \in {"card_txn_count", "card_amt_mean", "card_amt_std"} |->
                    IF c = "card_txn_count"
                    THEN Column("int64", [k \in 1..Len(keys) |-> agg_count(group(keys[k]))])
                    ELSE IF c = "card_amt_mean"
                    THEN Column("float64", [k \in 1..Len(keys) |-> agg_mean(group(keys[k]))])
                    ELSE Column("float64", [k \in 1..Len(keys) |-> agg_std(group(keys[k]))])]]

RequiredKeys == {"night_hours_start", "night_hours_end", "card_group_column"}
RequiredColumns ==
    {"TransactionDT", "TransactionAmt", "P_emaildomain", "R_emaildomain",
     "card1", "card2", "card3", "card4", "card5", "card6", AggColumn}
\* A KeyError on a parameter or column the function indexes and does not find.
engineer_features_ok(df, params) ==
    /\ RequiredKeys \subseteq DOMAIN params
    /\ \A c \in RequiredColumns : HasColumn(df, c)
    /\ \/ params["card_group_column"] = "card_id"
       \/ HasColumn(df, params["card_group_column"])

engineer_features(df, params) ==
    LET night_start == params["night_hours_start"]
        night_end == params["night_hours_end"]
        card_col == params["card_group_column"]
        rows == 1..df.n
        DT == df.col["TransactionDT"]
        Amt == df.col["TransactionAmt"]
        d1 == SetColumn(df, "hour",
                 MapColumn(DT, DT.dtype, LAMBDA c : FloorDivMod(c, 3600, 24)))
        d2 == SetColumn(d1, "day_of_week",
                 MapColumn(DT, DT.dtype, LAMBDA c : FloorDivMod(c, 3600 * 24, 7)))
        d3 == SetColumn(d2, "is_weekend",
                 MapColumn(d2.col["day_of_week"], "int64",
                           LAMBDA c : AsInt(c \in {IntCell(5), IntCell(6)})))
        d4 == SetColumn(d3, "is_night",
                 MapColumn(d3.col["hour"], "int64",
                           LAMBDA c : is_night(c, night_start, night_end)))
        d5 == SetColumn(d4, "amt_log",
                 MapColumn(Amt, "float64",
                           LAMBDA c : IF isnull(c) THEN NaN ELSE Log1p(c.a)))
        d6 == SetColumn(d5, "amt_decimal",
                 MapColumn(Amt, Amt.dtype,
                           LAMBDA c : IF isnull(c) THEN NaN ELSE Num(RatMod(c.a, 1))))
        d7 == SetColumn(d6, "is_round_amt",
                 MapColumn(d6.col["amt_decimal"], "int64", LAMBDA c : AsInt(c = IntCell(0))))
        d8 == SetColumn(d7, "P_email_provider",
                 MapColumn(d7.col["P_emaildomain"], "object", email_provider))
        d9 == SetColumn(d8, "R_email_provider",
                 MapColumn(d8.col["R_emaildomain"], "object", email_provider))
        d10 == SetColumn(d9, "email_match",
                 Column("int64", [k \in rows |->
                     email_match(Vals(d9, "P_emaildomain")[k], Vals(d9, "R_emaildomain")[k])]))
        d11 == SetColumn(d10, "card_id",
                 Column("object", [k \in rows |-> card_id(d10, k)]))
    IN  left_merge(d11, card_freq(d11, card_col, AggColumn), card_col)

(***************************************************************************)
(* handle_missing_values                                                   *)
(***************************************************************************)
\* params.get(key, default)
Get(params, key, default) == IF key \in DOMAIN params THEN params[key] ELSE default

DefaultMissingThreshold == <<9, 10>>

\* df[col].isnull().sum()
NullCount(df, name) == Cardinality({k \in 1..df.n : isnull(Vals(df, name)[k])})
\* missing_pct > threshold; on an empty frame missing_pct is 0/0 = NaN, which
\* exceeds nothing.
ExceedsThreshold(df, name, threshold) ==
    df.n > 0 /\ RatLess(threshold, Rat(NullCount(df, name), df.n))

RECURSIVE InsertSorted(_, _)
InsertSorted(x, seq) ==
    IF seq = <<>> THEN <<x>>
    ELSE IF NumLeq(x, Head(seq)) THEN <<x>> \o seq
    ELSE <<Head(seq)>> \o InsertSorted(x, Tail(seq))
RECURSIVE SortNums(_)
SortNums(seq) == IF seq = <<>> THEN <<>> ELSE InsertSorted(Head(seq), SortNums(Tail(seq)))
\* As median, had the lower of the two middle values been taken.
median_low(vals) ==
    LET xs == SortNums(SelectIdx(vals, LAMBDA c : ~isnull(c)))
        m == Len(xs)
    IN  IF m = 0 THEN NaN ELSE xs[(m + 1) \div 2]
\* Series.median(): over the non-missing cells; missing when there is none.
median(vals) ==
    LET xs == SortNums(SelectIdx(vals, LAMBDA c : ~isnull(c)))
        m == Len(xs)
    IN  IF m = 0 THEN NaN
        ELSE IF m % 2 = 1 THEN xs[(m + 1) \div 2]
        ELSE Halfsum(xs[m \div 2], xs[m \div 2 + 1])
\* Series.fillna(value): filling with a missing value changes nothing.
fillna(column, value) ==
    Column(column.dtype,
           [k \in DOMAIN column.vals |->
               IF isnull(column.vals[k]) THEN value ELSE column.vals[k]])
FillValue(column) ==
    IF column.dtype = "object" THEN Str("unknown") ELSE median(column.vals)

handle_missing_values(df, params) ==
    LET threshold == Get(params, "missing_threshold", DefaultMissingThreshold)
        cols_to_drop == SelectIdx(df.cols, LAMBDA c : ExceedsThreshold(df, c, threshold))
        kept == DropColumns(df, cols_to_drop)
    IN  [kept EXCEPT !.col = Columns([c \in DOMAIN @ |-> fillna(@[c], FillValue(@[c]))])]

(***************************************************************************)
(* encode_categorical_variables                                            *)
(***************************************************************************)
\* The cardinality cap: nunique() > 10 and nlargest(10).
TopCategories == 10

\* Series.nunique(): the distinct non-missing values.
Uniques(vals) == {c \in Range(vals) : ~isnull(c)}
Count(vals, c) == Cardinality({k \in DOMAIN vals : vals[k] = c})
FirstSeen(vals, c) == IndexOf(vals, c)
\* value_counts(): x comes before y when it is more frequent, and on a tie
\* when it appears first.
Before(vals, x, y) ==
    \/ Count(vals, x) > Count(vals, y)
    \/ Count(vals, x) = Count(vals, y) /\ FirstSeen(vals, x) < FirstSeen(vals, y)
\* value_counts().nlargest(k).index
nlargest(vals, k) ==
    {c \in Uniques(vals) :
        Cardinality({d \in Uniques(vals) : Before(vals, d, c)}) < k}
\* df[col].where(df[col].isin(top), other = "other")
cap_categories(column) ==
    IF Cardinality(Uniques(column.vals)) > TopCategories
    THEN LET top == nlargest(column.vals, TopCategories)
         IN  Column(column.dtype,
                    [k \in DOMAIN column.vals |->
                        IF column.vals[k] \in top THEN column.vals[k] ELSE Str("other")])
    ELSE column
\* As Levels, had drop_first been left out.
LevelsWithFirst(column) == SortCells(Uniques(column.vals))
\* The indicator levels of one column: its sorted values without the first.
Levels(column) ==
    LET sorted == SortCells(Uniques(column.vals))
    IN  IF sorted = <<>> THEN <<>> ELSE Tail(sorted)
DummyName(name, level) == name \o "_" \o level.s
\* pd.get_dummies(df, columns, drop_first = True): the other columns in
\* their order, then the indicators of each encoded column in turn.
get_dummies(df, columns) ==
    LET rest == DropColumns(df, columns)
        names == Flatten([i \in 1..Len(columns) |->
                    LET lv == Levels(df.col[columns[i]])
                    IN  [j \in 1..Len(lv) |-> DummyName(columns[i], lv[j])]])
        source == Flatten([i \in 1..Len(columns) |->
                    LET lv == Levels(df.col[columns[i]])
                    IN  [j \in 1..Len(lv) |-> <<columns[i], lv[j]>>]])
        dummy(c) ==
            LET src == source[IndexOf(names, c)]
            IN  Column("bool", [k \in 1..df.n |->
                                  AsInt(Vals(df, src[1])[k] = src[2])])
    IN  [rest EXCEPT !.cols = @ \o names,
                     !.col = Columns([c \in Range(rest.cols) \cup Range(names) |->
                                IF c \in Range(names) THEN dummy(c) ELSE rest.col[c]])]

categorical_cols(df, params) ==
    LET exclude_cols == Get(params, "encoding_exclude", <<>>)
    IN  SelectIdx(df.cols, LAMBDA c : Dtype(df, c) = "object" /\ ~Contains(exclude_cols, c))

encode_categorical_variables(df, params) ==
    LET cats == categorical_cols(df, params)
        capped == [df EXCEPT !.col = Columns([c \in DOMAIN @ |->
                      IF Contains(cats, c) THEN cap_categories(@[c]) ELSE @[c]])]
    IN  get_dummies(capped, cats)

(***************************************************************************)
(* split_features_target                                                   *)
(***************************************************************************)
target_column(params) == Get(params, "target_column", "isFraud")
\* As split_features_target_ok, had drop_columns not been filtered to the
\* columns the frame has.
split_features_target_ok_unfiltered(df, params) ==
    /\ HasColumn(df, target_column(params))
    /\ \A c \in Range(Get(params, "drop_columns", <<>>)) : HasColumn(df, c)
\* df[target]: a KeyError when the frame has no such column.
split_features_target_ok(df, params) == HasColumn(df, target_column(params))
split_X(df, params) ==
    LET drop_cols == SelectIdx(Get(params, "drop_columns", <<>>),
                               LAMBDA c : HasColumn(df, c))
    IN  DropColumns(df, drop_cols)
\* The target Series, held as a frame of that one column.
split_y(df, params) ==
    LET target == target_column(params)
    IN  [present |-> TRUE, cols |-> <<target>>, n |-> df.n,
         col |-> (target :> df.col[target])]

(***************************************************************************)
(* The data_processing pipeline (pipeline.py create_pipeline) and its run  *)
(***************************************************************************)
ParamsName == "params:data_processing"
\* As Nodes, had handle_missing_values_node been wired to merged_data.
NodesMiswired ==
    << [func |-> "merge_datasets",
        inputs |-> <<"train_transaction", "train_identity">>,
        outputs |-> <<"merged_data">>,
        name |-> "merge_tables_node"],
       [func |-> "engineer_features",
        inputs |-> <<"merged_data", ParamsName>>,
        outputs |-> <<"featured_data">>,
        name |-> "engineer_features_node"],
       [func |-> "handle_missing_values",
        inputs |-> <<"merged_data", ParamsName>>,
        outputs |-> <<"clean_data">>,
        name |-> "handle_missing_values_node"],
       [func |-> "encode_categorical_variables",
        inputs |-> <<"clean_data", ParamsName>>,
        outputs |-> <<"encoded_data">>,
        name |-> "encode_categorical_variables_node"],
       [func |-> "split_features_target",
        inputs |-> <<"encoded_data", ParamsName>>,
        outputs |-> <<"X_train", "y_train">>,
        name |-> "split_features_target_node"] >>
Nodes ==
    << [func |-> "merge_datasets",
        inputs |-> <<"train_transaction", "train_identity">>,
        outputs |-> <<"merged_data">>,
        name |-> "merge_tables_node"],
       [func |-> "engineer_features",
        inputs |-> <<"merged_data", ParamsName>>,
        outputs |-> <<"featured_data">>,
        name |-> "engineer_features_node"],
       [func |-> "handle_missing_values",
        inputs |-> <<"featured_data", ParamsName>>,
        outputs |-> <<"clean_data">>,
        name |-> "handle_missing_values_node"],
       [func |-> "encode_categorical_variables",
        inputs |-> <<"clean_data", ParamsName>>,
        outputs |-> <<"encoded_data">>,
        name |-> "encode_categorical_variables_node"],
       [func |-> "split_features_target",
        inputs |-> <<"encoded_data", ParamsName>>,
        outputs |-> <<"X_train", "y_train">>,
        name |-> "split_features_target_node"] >>

Datasets ==
    {"train_transaction", "train_identity", "merged_data", "featured_data",
     "clean_data", "encoded_data", "X_train", "y_train"}

\* catalog: the datasets of the run, NoData until a node has saved one.
\* params:  the data_processing parameters.
\* ran:     the names of the nodes that have run to completion, in order.
\* failed:  the name of the node that raised, "" while none has.
VARIABLES catalog, params, ran, failed
vars == <<catalog, params, ran, failed>>

Available(name) == IF name = ParamsName THEN TRUE ELSE catalog[name].present
Load(name) == IF name = ParamsName THEN params ELSE catalog[name]
\* A node runs once all its inputs exist; a run stops at the first failure.
Runnable(node) ==
    /\ failed = ""
    /\ ~Contains(ran, node.name)
    /\ \A i \in DOMAIN node.inputs : Available(node.inputs[i])
\* The node returned out, one value per output: each is saved.
Save(node, out) ==
    /\ catalog' = [d \in Datasets |->
                      IF Contains(node.outputs, d)
                      THEN out[IndexOf(node.outputs, d)] ELSE catalog[d]]
    /\ ran' = Append(ran, node.name)
    /\ UNCHANGED <<params, failed>>
\* The node raised: the run fails and nothing is saved.
Fail(node) ==
    /\ failed' = node.name
    /\ UNCHANGED <<catalog, params, ran>>

merge_tables_node ==
    LET node == Nodes[1]
        transactions == Load(node.inputs[1])
        identity == Load(node.inputs[2])
    IN  /\ Runnable(node)
        /\ IF merge_datasets_ok(transactions, identity)
           THEN Save(node, <<merge_datasets(transactions, identity)>>)
           ELSE Fail(node)
engineer_features_node ==
    LET node == Nodes[2]
        df == Load(node.inputs[1])
        p == Load(node.inputs[2])
    IN  /\ Runnable(node)
        /\ IF engineer_features_ok(df, p)
           THEN Save(node, <<engineer_features(df, p)>>)
           ELSE Fail(node)
handle_missing_values_node ==
    LET node == Nodes[3]
    IN  /\ Runnable(node)
        /\ Save(node, <<handle_missing_values(Load(node.inputs[1]), Load(node.inputs[2]))>>)
encode_categorical_variables_node ==
    LET node == Nodes[4]
    IN  /\ Runnable(node)
        /\ Save(node, <<encode_categorical_variables(Load(node.inputs[1]),
                                                     Load(node.inputs[2]))>>)
split_features_target_node ==
    LET node == Nodes[5]
        df == Load(node.inputs[1])
        p == Load(node.inputs[2])
    IN  /\ Runnable(node)
        /\ IF split_features_target_ok(df, p)
           THEN Save(node, <<split_X(df, p), split_y(df, p)>>)
           ELSE Fail(node)

Next ==
    \/ merge_tables_node
    \/ engineer_features_node
    \/ handle_missing_values_node
    \/ encode_categorical_variables_node
    \/ split_features_target_node

(***************************************************************************)
(* Inputs: the two raw tables and the parameters                           *)
(***************************************************************************)
MaxRows == 3
MaxIdRows == 2

\* All sequences over S of length at most n.
SeqsUpTo(S, n) == UNION {[1..k -> S] : k \in 0..n}
\* A numeric column read from a file: integers unless a value is missing.
Numeric(vals) ==
    Column(IF \E k \in DOMAIN vals : isnull(vals[k]) THEN "float64" ELSE "int64", vals)
Frame(cols, col) ==
    [present |-> TRUE, cols |-> cols, n |-> Len(col[cols[1]].vals), col |-> Columns(col)]
Const(n, c) == [k \in 1..n |-> c]

\* The transaction table: one row per transaction, TransactionID = 1, 2, ...
TransactionCols ==
    <<"TransactionID", "isFraud", "TransactionDT", "TransactionAmt",
      "card1", "card2", "card3", "card4", "card5", "card6",
      "P_emaildomain", "R_emaildomain">>
DefaultRows(n) ==
    [isFraud |-> [k \in 1..n |-> IntCell(k % 2)],
     TransactionDT |-> [k \in 1..n |-> IntCell(86400 + k * 5 * 3600 + 59)],
     TransactionAmt |-> [k \in 1..n |-> Num(Rat(25 * k, 2))],
     card1 |-> [k \in 1..n |-> IntCell(1000 + (k % 2))],
     card4 |-> Const(n, Str("visa")),
     P_emaildomain |-> Const(n, Str("gmail.com")),
     R_emaildomain |-> [k \in 1..n |-> IF k % 2 = 1 THEN Str("gmail.com") ELSE NaN]]
Transactions(n, r) ==
    Frame(TransactionCols,
          [c \in Range(TransactionCols) |->
              CASE c = "TransactionID" -> Column("int64", [k \in 1..n |-> IntCell(k)])
                [] c = "isFraud" -> Numeric(r.isFraud)
                [] c = "TransactionDT" -> Column("int64", r.TransactionDT)
                [] c = "TransactionAmt" -> Column("float64", r.TransactionAmt)
                [] c = "card1" -> Column("int64", r.card1)
                [] c = "card2" -> Column("float64", Const(n, Num(RatOfInt(111))))
                [] c = "card3" -> Column("float64", Const(n, Num(RatOfInt(150))))
                [] c = "card4" -> Column("object", r.card4)
                [] c = "card5" -> Column("float64", Const(n, Num(RatOfInt(226))))
                [] c = "card6" -> Column("object", Const(n, Str("debit")))
                [] c = "P_emaildomain" -> Column("object", r.P_emaildomain)
                [] c = "R_emaildomain" -> Column("object", r.R_emaildomain)])

\* The identity table: the transaction ids it has a row for, in file order.
Identity(key, ids, id_01, DeviceType) ==
    Frame(<<key, "id_01", "DeviceType">>,
          (key :> Column("int64", [k \in DOMAIN ids |-> IntCell(ids[k])]))
          @@ [c \in {"id_01", "DeviceType"} |->
                 IF c = "id_01" THEN Column("float64", id_01)
                 ELSE Column("object", DeviceType)])
DefaultIdentity(ids) ==
    Identity("TransactionID", ids,
             [k \in DOMAIN ids |-> Num(RatOfInt(-5 * k))],
             [k \in DOMAIN ids |-> IF k % 2 = 1 THEN Str("mobile") ELSE Str("desktop")])

BaseParams ==
    [night_hours_start |-> 22,
     night_hours_end |-> 6,
     card_group_column |-> "card_id",
     missing_threshold |-> <<9, 10>>,
     encoding_exclude |-> <<"card_id">>,
     target_column |-> "isFraud",
     drop_columns |-> <<"TransactionID">>]
With(p, key, value) == (key :> value) @@ p
Without(p, keys) == [k \in DOMAIN p \ keys |-> p[k]]
ParamChoices ==
    {BaseParams,
     With(BaseParams, "drop_columns", <<"isFraud", "TransactionID", "not_a_column">>),
     With(BaseParams, "drop_columns", <<>>),
     Without(BaseParams, {"missing_threshold", "encoding_exclude",
                          "target_column", "drop_columns"}),
     With(BaseParams, "target_column", "label"),
     With(BaseParams, "target_column", "card6"),
     With(BaseParams, "card_group_column", "card1"),
     With(BaseParams, "card_group_column", "no_such_column"),
     Without(BaseParams, {"night_hours_end"})}

\* The state before the run: the two raw tables loaded, nothing computed.
Start(transactions, identity, p) ==
    /\ catalog = [d \in Datasets |->
                    IF d = "train_transaction" THEN transactions
                    ELSE IF d = "train_identity" THEN identity
                    ELSE NoData]
    /\ params = p
    /\ ran = <<>>
    /\ failed = ""

\* The whole run, on tables that differ in what the identity table holds
\* (rows for no, some or all transactions, the same transaction twice, a
\* transaction the other table lacks, a key column of another name) and in
\* the parameters.
Init ==
    \E n \in 1..MaxRows :
        \/ \E ids \in SeqsUpTo(1..(n + 1), MaxIdRows),
              key \in {"TransactionID", "TxnID"} :
               Start(Transactions(n, DefaultRows(n)),
                     Identity(key, ids, Const(Len(ids), Num(One)),
                              Const(Len(ids), Str("mobile"))),
                     BaseParams)
        \/ \E p \in ParamChoices :
               Start(Transactions(n, DefaultRows(n)), DefaultIdentity(<<1>>), p)

Spec == Init /\ [][Next]_vars

(***************************************************************************)
(* engineer_features on its own inputs                                     *)
(***************************************************************************)
NextEngineer ==
    \/ merge_tables_node
    \/ engineer_features_node

\* One row per hour of the day, on different days and seconds of the hour,
\* under every pair of night hours.
HoursPerDay == 24
MaxDay == 2
HourlyDT(phase) ==
    [k \in 1..HoursPerDay |->
        IntCell(((k + phase) % (MaxDay + 1)) * 3600 * HoursPerDay
                + (k - 1) * 3600 + ((k * 977) % 3600))]
InitNight ==
    \E phase \in 0..MaxDay, night_start \in 0..(HoursPerDay - 1),
       night_end \in 0..(HoursPerDay - 1) :
        Start(Transactions(HoursPerDay,
                           With(DefaultRows(HoursPerDay), "TransactionDT", HourlyDT(phase))),
              DefaultIdentity(<<1>>),
              With(With(BaseParams, "night_hours_start", night_start),
                   "night_hours_end", night_end))
SpecNight == InitNight /\ [][NextEngineer]_vars

\* Email domains present, missing, equal and different; and transactions
\* of one card or of two, with equal or different amounts.
PDomains == {NaN, Str("gmail.com"), Str("yahoo.co.jp")}
RDomains == {NaN, Str("gmail.com")}
Card1Values == {IntCell(1000), IntCell(1001)}
AmtValues == {Num(RatOfInt(10)), Num(<<25, 2>>)}
InitEngineer ==
    \E n \in 1..MaxRows :
        \/ \E P \in [1..n -> PDomains], R \in [1..n -> RDomains] :
               Start(Transactions(n, With(With(DefaultRows(n), "P_emaildomain", P),
                                          "R_emaildomain", R)),
                     DefaultIdentity(<<1>>), BaseParams)
        \/ \E card1 \in [1..n -> Card1Values], amt \in [1..n -> AmtValues],
              by \in {"card_id", "card1"} :
               Start(Transactions(n, With(With(DefaultRows(n), "card1", card1),
                                          "TransactionAmt", amt)),
                     DefaultIdentity(<<1>>),
                     With(BaseParams, "card_group_column", by))
SpecEngineer == InitEngineer /\ [][NextEngineer]_vars

(***************************************************************************)
(* handle_missing_values on its own inputs                                 *)
(***************************************************************************)
\* The identity table has rows for the first m transactions, with id_01
\* present or missing in each; the target is present or missing in each
\* transaction; the threshold drops many columns, some or none.
FraudValues == {IntCell(0), IntCell(1), NaN}
Id01Values == {NaN, Num(One), Num(RatOfInt(4)), Num(RatOfInt(9))}
Thresholds == {<<0, 1>>, <<1, 2>>, <<9, 10>>, <<1, 1>>}
InitClean ==
    \E n \in 1..MaxRows, t \in Thresholds :
        \/ \E m \in 0..n : \E id_01 \in [1..m -> Id01Values] :
               Start(Transactions(n, DefaultRows(n)),
                     Identity("TransactionID", [k \in 1..m |-> k], id_01,
                              Const(m, Str("mobile"))),
                     With(BaseParams, "missing_threshold", t))
        \/ \E fraud \in [1..n -> FraudValues] :
               Start(Transactions(n, With(DefaultRows(n), "isFraud", fraud)),
                     DefaultIdentity(<<1>>),
                     With(BaseParams, "missing_threshold", t))
SpecClean == InitClean /\ [][Next]_vars

(***************************************************************************)
(* encode_categorical_variables on its own inputs                          *)
(***************************************************************************)
NextEncode ==
    \/ merge_tables_node
    \/ engineer_features_node
    \/ handle_missing_values_node
    \/ encode_categorical_variables_node

\* The purchaser domain takes k distinct values, around the cap, one of
\* which may be the literal "other", and up to MaxRepeat of the rows repeat
\* a value; the encoder skips card_id or the purchaser domain.
MaxOver == 2
MaxRepeat == 1
DomainName(i, other) ==
    IF i = other THEN Str("other") ELSE Str("d" \o ToString(i) \o ".com")
Repeats(k) ==
    {r \in SeqsUpTo(1..k, MaxRepeat) : \A i \in 1..(Len(r) - 1) : r[i] <= r[i + 1]}
InitEncode ==
    \E k \in (TopCategories - 1)..(TopCategories + MaxOver) :
        \E r \in Repeats(k), other \in {0, k},
           exclude \in {<<"card_id">>, <<"P_emaildomain">>} :
            LET P == [i \in 1..(k + Len(r)) |->
                        DomainName(IF i <= k THEN i ELSE r[i - k], other)]
            IN  Start(Transactions(Len(P), With(DefaultRows(Len(P)), "P_emaildomain", P)),
                      DefaultIdentity(<<1>>),
                      With(BaseParams, "encoding_exclude", exclude))
SpecEncode == InitEncode /\ [][NextEncode]_vars

(***************************************************************************)
(* Properties                                                              *)
(***************************************************************************)
\* The parameters and datasets the properties speak of.
TargetName == IF "target_column" \in DOMAIN params THEN params["target_column"] ELSE "isFraud"
DropNames == IF "drop_columns" \in DOMAIN params THEN Range(params["drop_columns"]) ELSE {}
SplitAttempted ==
    Contains(ran, "split_features_target_node") \/ failed = "split_features_target_node"

\* C1: after merge_datasets, engineer_features, handle_missing_values and
\* encode_categorical_variables the table has as many rows as the
\* transaction table, whatever the identity table holds.
C1_RowCountConserved ==
    \A d \in {"merged_data", "featured_data", "clean_data", "encoded_data"} :
        catalog[d].present => catalog[d].n = catalog["train_transaction"].n

\* C2: the feature matrix has the columns of the encoded table without the
\* target column and without the drop_columns entries the table has; the
\* target column is never among them.
C2_FeatureMatrixColumns ==
    catalog["X_train"].present =>
        /\ catalog["X_train"].cols =
               SelectIdx(catalog["encoded_data"].cols,
                         LAMBDA c : c # TargetName /\ c \notin DropNames)
        /\ ~HasColumn(catalog["X_train"], TargetName)

\* C5: split_features_target fails exactly when the target column is absent
\* from its input table, and then returns neither a feature matrix nor a
\* target; drop_columns entries the table lacks never make it fail.
C5_SplitFailsIffTargetAbsent ==
    SplitAttempted =>
        /\ failed = "split_features_target_node"
               <=> ~HasColumn(catalog["encoded_data"], TargetName)
        /\ failed = "split_features_target_node"
               => ~catalog["X_train"].present /\ ~catalog["y_train"].present
        /\ failed = "" => catalog["X_train"].present /\ catalog["y_train"].present
\* The split has failed on a table without the target column.
C5_Witness ==
    /\ failed = "split_features_target_node"
    /\ catalog["encoded_data"].present
    /\ ~HasColumn(catalog["encoded_data"], TargetName)

\* C6: after a whole run on a numeric target that has values, the target
\* vector has one entry per transaction row and every entry is a value of
\* the original target column, also when missing targets were imputed.
C6_TargetValuesFromOriginal ==
    LET original == Vals(catalog["train_transaction"], TargetName)
        y == Vals(catalog["y_train"], TargetName)
    IN  catalog["y_train"].present /\ Uniques(original) # {} =>
            /\ catalog["y_train"].n = catalog["train_transaction"].n
            /\ \A k \in DOMAIN y : y[k] \in Uniques(original)

\* C10: the five stages run in the order merge, engineer, clean, encode,
\* split; a stage runs only once the stage before it has produced its
\* output, it consumes exactly that output, and after a failure no later
\* stage runs.
C10_StagesRunInOrder ==
    LET order == <<"merge_tables_node", "engineer_features_node",
                   "handle_missing_values_node",
                   "encode_categorical_variables_node",
                   "split_features_target_node">>
        outputs == <<{"merged_data"}, {"featured_data"}, {"clean_data"},
                     {"encoded_data"}, {"X_train", "y_train"}>>
        done == Len(ran)
    IN  /\ done <= 5
        /\ ran = SubSeq(order, 1, done)
        /\ \A i \in 1..5 : \A d \in outputs[i] : catalog[d].present <=> i <= done
        /\ failed # "" => done < 5 /\ failed = order[done + 1]
        /\ done >= 1 => catalog["merged_data"] =
               merge_datasets(catalog["train_transaction"], catalog["train_identity"])
        /\ done >= 2 => catalog["featured_data"] =
               engineer_features(catalog["merged_data"], params)
        /\ done >= 3 => catalog["clean_data"] =
               handle_missing_values(catalog["featured_data"], params)
        /\ done >= 4 => catalog["encoded_data"] =
               encode_categorical_variables(catalog["clean_data"], params)
        /\ done >= 5 => /\ catalog["X_train"] = split_X(catalog["encoded_data"], params)
                        /\ catalog["y_train"] = split_y(catalog["encoded_data"], params)
\* A run in which all five stages have run.
C10_Witness ==
    /\ Len(ran) = 5
    /\ catalog["y_train"].present

\* C7: is_night is 1 exactly when hour >= night_hours_start or
\* hour < night_hours_end, with hour = (TransactionDT // 3600) mod 24, for
\* all night hours in 0..23.
C7_IsNightIffInNightHours ==
    catalog["featured_data"].present =>
        LET DT == Vals(catalog["merged_data"], "TransactionDT")
            night == Vals(catalog["featured_data"], "is_night")
            hour(k) == (DT[k].a[1] \div 3600) % 24
        IN  /\ Len(night) = Len(DT)
            /\ \A k \in DOMAIN night :
                   /\ night[k] \in {IntCell(0), IntCell(1)}
                   /\ night[k] = IntCell(1) <=>
                          \/ hour(k) >= params["night_hours_start"]
                          \/ hour(k) < params["night_hours_end"]
\* The night starts after it ends, and the table has a transaction in the
\* hour it starts, marked 1, and one in the hour it ends, marked 0.
C7_Witness ==
    /\ catalog["featured_data"].present
    /\ params["night_hours_end"] < params["night_hours_start"]
    /\ LET hour == Vals(catalog["featured_data"], "hour")
           night == Vals(catalog["featured_data"], "is_night")
       IN  /\ \E k \in DOMAIN hour : /\ hour[k] = IntCell(params["night_hours_start"])
                                     /\ night[k] = IntCell(1)
           /\ \E k \in DOMAIN hour : /\ hour[k] = IntCell(params["night_hours_end"])
                                     /\ night[k] = IntCell(0)

\* C8 as stated: email_match is 1 when the purchaser and recipient email
\* domains are identical, also when both are missing, and 0 otherwise.
C8_EmailMatchByValue ==
    catalog["featured_data"].present =>
        LET P == Vals(catalog["featured_data"], "P_emaildomain")
            R == Vals(catalog["featured_data"], "R_emaildomain")
            match == Vals(catalog["featured_data"], "email_match")
        IN  \A k \in DOMAIN match :
                match[k] = IF P[k] = R[k] THEN IntCell(1) ELSE IntCell(0)
\* C8 as amended: email_match is 1 when both email domains are present and
\* identical, and 0 otherwise, also when both are missing.
C8_EmailMatchPresentAndEqual ==
    catalog["featured_data"].present =>
        LET P == Vals(catalog["featured_data"], "P_emaildomain")
            R == Vals(catalog["featured_data"], "R_emaildomain")
            match == Vals(catalog["featured_data"], "email_match")
        IN  \A k \in DOMAIN match :
                match[k] = IF P[k].f = "str" /\ R[k].f = "str" /\ P[k].s = R[k].s
                           THEN IntCell(1) ELSE IntCell(0)
\* A row whose two email domains are both missing, marked 0, beside a row
\* whose two domains are equal, marked 1.
C8_Witness ==
    /\ catalog["featured_data"].present
    /\ LET P == Vals(catalog["featured_data"], "P_emaildomain")
           R == Vals(catalog["featured_data"], "R_emaildomain")
           match == Vals(catalog["featured_data"], "email_match")
       IN  /\ \E k \in DOMAIN match :
                  P[k] = NaN /\ R[k] = NaN /\ match[k] = IntCell(0)
           /\ \E k \in DOMAIN match :
                  P[k] = Str("gmail.com") /\ R[k] = P[k] /\ match[k] = IntCell(1)

\* C9: every row carries the aggregates of its card group: the number of
\* its transactions, and the mean and the standard deviation of
\* TransactionAmt over them (missing for a group of one row).
C9_CardAggregatesOfAmount ==
    catalog["featured_data"].present =>
        LET df == catalog["featured_data"]
            by == Vals(df, params["card_group_column"])
            group(k) == SelectIdx([j \in 1..df.n |-> j], LAMBDA j : by[j] = by[k])
            amounts(k) == [i \in 1..Len(group(k)) |->
                              Vals(df, "TransactionAmt")[group(k)[i]]]
        IN  \A k \in 1..df.n :
                /\ Vals(df, "card_txn_count")[k] = IntCell(Len(group(k)))
                /\ Vals(df, "card_amt_mean")[k] = agg_mean(amounts(k))
                /\ Vals(df, "card_amt_std")[k] = agg_std(amounts(k))

\* m is the median of the non-missing cells of vals: the middle one in
\* increasing order, the mean of the two middle ones for an even number.
IsMedianOf(m, vals) ==
    LET xs == SelectIdx(vals, LAMBDA c : ~isnull(c))
        below(x) == Cardinality({i \in DOMAIN xs : NumLess(xs[i], x)})
        upto(x) == Cardinality({i \in DOMAIN xs : NumLeq(xs[i], x)})
        at(x, pos) == below(x) < pos /\ pos <= upto(x)
    IN  \E i, j \in DOMAIN xs :
            /\ at(xs[i], (Len(xs) + 1) \div 2)
            /\ at(xs[j], Len(xs) \div 2 + 1)
            /\ IF xs[i] = xs[j] THEN m = xs[i]
               ELSE IF xs[i].f = "id"
               THEN m.f = "id" /\ RatAdd(m.a, m.a) = RatAdd(xs[i].a, xs[j].a)
               ELSE m.f = xs[i].f /\ m.a = xs[i].a /\ m.b = xs[j].a
AllMissing(vals) == \A k \in DOMAIN vals : isnull(vals[k])

\* C3 as stated: after handle_missing_values no cell is missing, for every
\* table and threshold: a missing cell of a retained object column is
\* "unknown" and a missing cell of a retained numeric column is the median
\* of the column's non-missing values, also in a column with no value.
C3_NoCellMissing ==
    catalog["clean_data"].present =>
        LET before == catalog["featured_data"]
            after == catalog["clean_data"]
        IN  \A c \in Range(after.cols) : \A k \in 1..after.n :
                /\ ~isnull(Vals(after, c)[k])
                /\ isnull(Vals(before, c)[k]) =>
                       IF Dtype(before, c) = "object"
                       THEN Vals(after, c)[k] = Str("unknown")
                       ELSE IsMedianOf(Vals(after, c)[k], Vals(before, c))
\* C3 as amended: a retained numeric column whose values are all missing
\* (retained only under a threshold of 1 or more) stays all missing; no
\* other cell of the output is missing: a missing cell of a retained object
\* column is "unknown", a missing cell of a retained numeric column that has
\* a value is the median of its non-missing values.
C3_NoCellMissingButInEmptyNumericColumns ==
    catalog["clean_data"].present =>
        LET before == catalog["featured_data"]
            after == catalog["clean_data"]
            threshold == IF "missing_threshold" \in DOMAIN params
                         THEN params["missing_threshold"] ELSE <<9, 10>>
        IN  \A c \in Range(after.cols) :
                IF Dtype(before, c) # "object" /\ AllMissing(Vals(before, c))
                THEN /\ AllMissing(Vals(after, c))
                     /\ after.n > 0 => RatLeq(One, threshold)
                ELSE \A k \in 1..after.n :
                        /\ ~isnull(Vals(after, c)[k])
                        /\ isnull(Vals(before, c)[k]) =>
                               IF Dtype(before, c) = "object"
                               THEN Vals(after, c)[k] = Str("unknown")
                               ELSE IsMedianOf(Vals(after, c)[k], Vals(before, c))
\* A cleaned table that keeps a numeric column without any value, still all
\* missing, beside a numeric column whose missing cell now holds a value.
C3_Witness ==
    /\ catalog["clean_data"].present
    /\ LET before == catalog["featured_data"]
           after == catalog["clean_data"]
       IN  /\ \E c \in Range(after.cols) :
                  /\ Dtype(before, c) # "object"
                  /\ before.n > 0
                  /\ AllMissing(Vals(after, c))
           /\ \E c \in Range(after.cols) : \E k \in 1..after.n :
                  /\ Dtype(before, c) # "object"
                  /\ isnull(Vals(before, c)[k])
                  /\ ~isnull(Vals(after, c)[k])

\* The object columns of the cleaned table that encoding_exclude does not
\* name, and the values a column may hold after capping.
Encoded ==
    {c \in Range(catalog["clean_data"].cols) :
        /\ Dtype(catalog["clean_data"], c) = "object"
        /\ ~("encoding_exclude" \in DOMAIN params
             /\ c \in Range(params["encoding_exclude"]))}
CapValues(c) == Uniques(Vals(catalog["clean_data"], c)) \cup {Str("other")}
\* The indicator columns of c in the encoded table, each with its value.
Indicators(c) ==
    {v \in CapValues(c) : HasColumn(catalog["encoded_data"], c \o "_" \o v.s)}
\* The values of column c after capping, read off its indicator columns,
\* ref being the value that has no indicator.
Decoded(c, ref) ==
    [k \in 1..catalog["encoded_data"].n |->
        IF \E v \in Indicators(c) :
               Vals(catalog["encoded_data"], c \o "_" \o v.s)[k] = IntCell(1)
        THEN CHOOSE v \in Indicators(c) :
               Vals(catalog["encoded_data"], c \o "_" \o v.s)[k] = IntCell(1)
        ELSE ref]
\* kept is a choice of the 10 most frequent values of vals.
MostFrequent(kept, vals) ==
    /\ kept \subseteq Uniques(vals)
    /\ Cardinality(kept) = 10
    /\ \A x \in kept : \A y \in Uniques(vals) \ kept : Count(vals, x) >= Count(vals, y)

\* C4: every object column outside encoding_exclude with more than 10
\* distinct values keeps its 10 most frequent values and has "other" in
\* place of the rest; the column is replaced by k - 1 indicator columns, k
\* its number of distinct values after capping; every other column passes
\* through unchanged.
C4_CappedAndOneHotEncoded ==
    catalog["encoded_data"].present =>
        LET clean == catalog["clean_data"]
            encoded == catalog["encoded_data"]
        IN  /\ \A c \in Encoded :
                LET vals == Vals(clean, c)
                IN  /\ ~HasColumn(encoded, c)
                    /\ \E ref \in CapValues(c) \ Indicators(c) :
                        LET capped == Decoded(c, ref)
                            unchanged == {v \in Uniques(vals) :
                                \A k \in DOMAIN vals : vals[k] = v => capped[k] = v}
                        IN  /\ Cardinality(Indicators(c)) = Cardinality(Range(capped)) - 1
                            /\ \A v \in Indicators(c) : \A k \in DOMAIN vals :
                                   Vals(encoded, c \o "_" \o v.s)[k] =
                                       IF capped[k] = v THEN IntCell(1) ELSE IntCell(0)
                            /\ IF Cardinality(Uniques(vals)) > 10
                               THEN \E kept \in {unchanged, unchanged \ {Str("other")}} :
                                       /\ MostFrequent(kept, vals)
                                       /\ \A k \in DOMAIN vals :
                                              capped[k] = IF vals[k] \in kept
                                                          THEN vals[k] ELSE Str("other")
                               ELSE capped = vals
            /\ \A c \in Range(clean.cols) \ Encoded :
                   HasColumn(encoded, c) /\ encoded.col[c] = clean.col[c]
            /\ Len(encoded.cols) = Len(clean.cols) - Cardinality(Encoded)
                   + Cardinality({<<c, v>> \in UNION {{c} \X Indicators(c) : c \in Encoded} : TRUE})
\* An encoded table from a column of more than 10 distinct values: it has
\* an indicator for "other" and 10 indicators in all.
C4_Witness ==
    /\ catalog["encoded_data"].present
    /\ \E c \in Encoded :
           /\ Cardinality(Uniques(Vals(catalog["clean_data"], c))) > 10
           /\ Str("other") \in Indicators(c)
           /\ Cardinality(Indicators(c)) = 10

====
